---- MODULE Spec2Model ----
(***************************************************************************)
(* Model of the food-safety classification cascade of                      *)
(* src/ai_classifier.py (class FoodSafetyImageClassifier).                  *)
(*                                                                         *)
(* Conventions                                                             *)
(*   - Python str values are TLA+ strings; Len, SubSeq and \o act on them. *)
(*   - An argument that may be None (expiry_date, image_base64) is tagged: *)
(*     [str |-> s] or [null |-> TRUE].                                     *)
(*   - Python floats that the code writes as literals (0.99, 0.5, ...) are  *)
(*     integers in hundredths (99, 50, ...): 1.0 is 100.                    *)
(*   - A value stored in a verdict dict is tagged with its Python type:      *)
(*     [str |-> s], [num |-> n], [list |-> seq], [bool |-> b],              *)
(*     [null |-> TRUE].  A verdict is a function from its keys to tagged    *)
(*     values; a key that the dict lacks is not in its DOMAIN.              *)
(*   - The pictographs that open the reason texts of the source are left    *)
(*     out of the string literals (the module is ASCII); the rest of each    *)
(*     literal is the source's.                                             *)
(*   - A call that can raise yields [raised |-> TRUE, error |-> message] or *)
(*     [raised |-> FALSE, value |-> v].                                     *)
(***************************************************************************)
EXTENDS Integers, Sequences, FiniteSets, TLC

----------------------------------------------------------------------------
(* Strings *)

\* s[i] of a Python str, 1-based
CharAt(s, i) == SubSeq(s, i, i)

UpperChars == "ABCDEFGHIJKLMNOPQRSTUVWXYZ"
LowerChars == "abcdefghijklmnopqrstuvwxyz"
DigitChars == "0123456789"

\* position of the one-character string c in alphabet, 0 when absent
IndexIn(alphabet, c) ==
    IF \E i \in 1..Len(alphabet) : CharAt(alphabet, i) = c
    THEN CHOOSE i \in 1..Len(alphabet) : CharAt(alphabet, i) = c
    ELSE 0

\* the characters of a str
CharsOf(s) == {CharAt(s, i) : i \in 1..Len(s)}

\* the case mappings and the digit values as tables, one entry per
\* character of the alphabet
LowerOf == [c \in CharsOf(UpperChars) |-> CharAt(LowerChars, IndexIn(UpperChars, c))]
UpperOf == [c \in CharsOf(LowerChars) |-> CharAt(UpperChars, IndexIn(LowerChars, c))]
DigitOf == [c \in CharsOf(DigitChars) |-> IndexIn(DigitChars, c) - 1]

\* str.lower() and str.upper(), on ASCII text: c.lower() and c.upper() of a
\* one-character string
LowerChar(c) == IF c \in DOMAIN LowerOf THEN LowerOf[c] ELSE c

UpperChar(c) == IF c \in DOMAIN UpperOf THEN UpperOf[c] ELSE c

\* s.lower(): character by character, each read once
RECURSIVE Lower(_)
Lower(s) ==
    IF s = "" THEN ""
    ELSE CHOOSE r \in {LowerChar(c) \o Lower(t) : c \in {Head(s)}, t \in {Tail(s)}} : TRUE

\* s.upper()
RECURSIVE Upper(_)
Upper(s) ==
    IF s = "" THEN ""
    ELSE CHOOSE r \in {UpperChar(c) \o Upper(t) : c \in {Head(s)}, t \in {Tail(s)}} : TRUE

\* Python's `word in text` on two str values
Contains(text, word) ==
    \E i \in 1..(Len(text) - Len(word) + 1) :
        SubSeq(text, i, i + Len(word) - 1) = word

\* s.split(sep)[0] for a one-character sep
RECURSIVE SplitFirst(_, _)
SplitFirst(s, sep) ==
    IF s = "" \/ Head(s) = sep THEN ""
    ELSE Head(s) \o SplitFirst(Tail(s), sep)

\* sep.join(words)
RECURSIVE Join(_, _)
Join(sep, words) ==
    IF words = <<>> THEN ""
    ELSE IF Len(words) = 1 THEN words[1]
    ELSE words[1] \o sep \o Join(sep, Tail(words))

\* str(n) for an integer n
RECURSIVE NatStr(_)
NatStr(n) ==
    IF n < 10 THEN CharAt(DigitChars, n + 1)
    ELSE NatStr(n \div 10) \o CharAt(DigitChars, (n % 10) + 1)

IntStr(n) == IF n < 0 THEN "-" \o NatStr(0 - n) ELSE NatStr(n)

Abs(n) == IF n < 0 THEN 0 - n ELSE n

IsDigit(c) == c \in DOMAIN DigitOf

DigitVal(c) == DigitOf[c]

\* int(s) for a str of decimal digits
RECURSIVE DigitsVal(_)
DigitsVal(s) ==
    IF s = "" THEN 0
    ELSE 10 * DigitsVal(SubSeq(s, 1, Len(s) - 1)) + DigitVal(CharAt(s, Len(s)))

\* n as decimal digits, zero-padded to width w (strftime's %Y, %m, %d)
RECURSIVE ZeroPad(_, _)
ZeroPad(n, w) ==
    IF Len(NatStr(n)) >= w THEN NatStr(n)
    ELSE "0" \o (IF w = 1 THEN NatStr(n) ELSE ZeroPad(n, w - 1))

----------------------------------------------------------------------------
(* Calendar dates: datetime.date as [y, m, d], and its proleptic ordinal *)

IsLeap(y) == (y % 4 = 0) /\ ((y % 100 # 0) \/ (y % 400 = 0))

DaysInMonth(y, m) ==
    IF m = 2 THEN (IF IsLeap(y) THEN 29 ELSE 28)
    ELSE IF m \in {4, 6, 9, 11} THEN 30 ELSE 31

DaysBeforeYear(y) ==
    365 * (y - 1) + ((y - 1) \div 4) - ((y - 1) \div 100) + ((y - 1) \div 400)

RECURSIVE DaysBeforeMonth(_, _)
DaysBeforeMonth(y, m) ==
    IF m = 1 THEN 0 ELSE DaysBeforeMonth(y, m - 1) + DaysInMonth(y, m - 1)

\* date.toordinal()
ToOrdinal(date) == DaysBeforeYear(date.y) + DaysBeforeMonth(date.y, date.m) + date.d

\* date.fromordinal(n)
FromOrdinal(n) ==
    LET y == CHOOSE yy \in ((n \div 366) + 1)..((n \div 365) + 1) :
                 DaysBeforeYear(yy) < n /\ n <= DaysBeforeYear(yy + 1)
        r == n - DaysBeforeYear(y)
        m == CHOOSE mm \in 1..12 :
                 DaysBeforeMonth(y, mm) < r
                 /\ r <= DaysBeforeMonth(y, mm) + DaysInMonth(y, mm)
    IN  [y |-> y, m |-> m, d |-> r - DaysBeforeMonth(y, m)]

\* date.strftime("%Y-%m-%d")
Strftime(date) ==
    ZeroPad(date.y, 4) \o "-" \o ZeroPad(date.m, 2) \o "-" \o ZeroPad(date.d, 2)

\* the first position at or after i of the one-character string c in s, 0
\* when there is none
RECURSIVE IndexFrom(_, _, _)
IndexFrom(s, c, i) ==
    IF i > Len(s) THEN 0
    ELSE IF CharAt(s, i) = c THEN i
    ELSE IndexFrom(s, c, i + 1)

FirstIndexOf(s, c) == IndexFrom(s, c, 1)

\* the last position at or before i of the one-character string c in s, 0
\* when there is none
RECURSIVE IndexBack(_, _, _)
IndexBack(s, c, i) ==
    IF i < 1 THEN 0
    ELSE IF CharAt(s, i) = c THEN i
    ELSE IndexBack(s, c, i - 1)

LastIndexOf(s, c) == IndexBack(s, c, Len(s))

\* strptime's pattern for %m: 1[0-2]|0[1-9]|[1-9]
MatchesMonth(t) ==
    \/ Len(t) = 2 /\ CharAt(t, 1) = "1" /\ CharAt(t, 2) \in {"0", "1", "2"}
    \/ Len(t) = 2 /\ CharAt(t, 1) = "0" /\ IsDigit(CharAt(t, 2)) /\ CharAt(t, 2) # "0"
    \/ Len(t) = 1 /\ IsDigit(t) /\ t # "0"

\* strptime's pattern for %d: 3[0-1]|[1-2]\d|0[1-9]|[1-9]| [1-9]
MatchesDay(t) ==
    \/ Len(t) = 2 /\ CharAt(t, 1) = "3" /\ CharAt(t, 2) \in {"0", "1"}
    \/ Len(t) = 2 /\ CharAt(t, 1) \in {"1", "2"} /\ IsDigit(CharAt(t, 2))
    \/ Len(t) = 2 /\ CharAt(t, 1) \in {"0", " "} /\ IsDigit(CharAt(t, 2))
                  /\ CharAt(t, 2) # "0"
    \/ Len(t) = 1 /\ IsDigit(t) /\ t # "0"

\* int() of a matched %d group (a leading blank is allowed)
DayVal(t) == IF CharAt(t, 1) = " " THEN DigitsVal(Tail(t)) ELSE DigitsVal(t)

ValueError == [ok |-> FALSE]

\* datetime.strptime(arg, '%Y-%m-%d').date(): [ok |-> TRUE, date |-> d], or
\* ValueError for every exception (no match, unconverted data, a day or year
\* out of range, an argument that is not a str)
Strptime(arg) ==
    IF "str" \notin DOMAIN arg THEN ValueError
    ELSE
    LET s     == arg.str
        rest  == SubSeq(s, 6, Len(s))
        dash  == FirstIndexOf(rest, "-")
        mstr  == SubSeq(rest, 1, dash - 1)
        dstr  == SubSeq(rest, dash + 1, Len(rest))
    IN  IF /\ Len(s) >= 8
           /\ \A i \in 1..4 : IsDigit(CharAt(s, i))
           /\ CharAt(s, 5) = "-"
           /\ dash > 1
           /\ MatchesMonth(mstr)
           /\ MatchesDay(dstr)
        THEN LET y == DigitsVal(SubSeq(s, 1, 4))
                 m == DigitsVal(mstr)
                 d == DayVal(dstr)
             IN  IF y >= 1 /\ d <= DaysInMonth(y, m)
                 THEN [ok |-> TRUE, date |-> [y |-> y, m |-> m, d |-> d]]
                 ELSE ValueError
        ELSE ValueError

----------------------------------------------------------------------------
(* Python values *)

PyNone == [null |-> TRUE]
Str(s) == [str |-> s]
Num(n) == [num |-> n]
List(q) == [list |-> q]
Bool(b) == [bool |-> b]

IsStr(v) == "str" \in DOMAIN v
IsNum(v) == "num" \in DOMAIN v

\* bool(v) of an optional str: None and "" are falsy
Truthy(v) == IsStr(v) /\ v.str # ""

\* d[k] = v on a dict
Put(d, k, v) == (k :> v) @@ d

Returned(v) == [raised |-> FALSE, value |-> v]
Raised(e) == [raised |-> TRUE, error |-> e]

----------------------------------------------------------------------------
(* FoodSafetyImageClassifier._smart_local_ai *)

spoilage_words == <<"mold", "rotten", "spoiled", "sour", "bad", "expired">>

\* the first word of words that text contains, alone
WordsInFirst(words, text) ==
    LET hits == {i \in 1..Len(words) : Contains(text, words[i])}
    IN  IF hits = {} THEN <<>>
        ELSE <<words[CHOOSE i \in hits : \A j \in hits : i <= j]>>

\* [word for word in words if word in text]
RECURSIVE WordsIn(_, _)
WordsIn(words, text) ==
    IF words = <<>> THEN <<>>
    ELSE (IF Contains(text, Head(words)) THEN <<Head(words)>> ELSE <<>>)
         \o WordsIn(Tail(words), text)

LocalVerdict(status, confidence, reason, risk_factors, recommendations) ==
    [status          |-> Str(status),
     confidence      |-> Num(confidence),
     reason          |-> Str(reason),
     risk_factors    |-> List(risk_factors),
     recommendations |-> List(recommendations),
     model           |-> Str("local_ai")]

\* the text matched without lower-casing it
LocalTextNoLower(food_name, description) == food_name \o " " \o description

\* line 284: text = f"{food_name} {description}".lower()
LocalText(food_name, description) == Lower(food_name \o " " \o description)

\* line 287
ImageNote(had_image) ==
    IF had_image THEN " (image provided but analysis failed)" ELSE ""

\* the expiry test off by one day
IsExpiredOffByOne(days_left) == days_left < -1

\* line 290: if days_left < 0
IsExpired(days_left) == days_left < 0

\* the perishable test giving way to a shelf-stable keyword
IsPerishableNotShelfStable(text) ==
    /\ Contains(text, "milk") \/ Contains(text, "meat") \/ Contains(text, "fish")
    /\ ~(Contains(text, "canned") \/ Contains(text, "packaged"))

\* line 315: if 'milk' in text or 'meat' in text or 'fish' in text
IsPerishable(text) ==
    Contains(text, "milk") \/ Contains(text, "meat") \/ Contains(text, "fish")

\* the shelf-stable test without the keyword canned
IsShelfStablePackagedOnly(text) == Contains(text, "packaged")

\* line 344: elif 'canned' in text or 'packaged' in text
IsShelfStable(text) == Contains(text, "canned") \/ Contains(text, "packaged")

\* the perishable tiers with consume_soon from two days on
PerishableVerdictFromTwoDays(days_left, image_note) ==
    IF days_left >= 7 THEN
        LocalVerdict("safe_to_donate", 85,
            "SAFE: Perishable but fresh" \o image_note,
            <<"perishable">>, <<"Keep refrigerated">>)
    ELSE IF days_left >= 2 THEN
        LocalVerdict("consume_soon", 90,
            "CONSUME SOON: Perishable, eat within " \o IntStr(days_left)
                \o " days" \o image_note,
            <<"perishable", "time_sensitive">>, <<"Consume quickly", "Keep cold">>)
    ELSE
        LocalVerdict("reject", 88,
            "REJECT: Perishable, only " \o IntStr(days_left) \o " days left"
                \o image_note,
            <<"perishable", "too_close">>, <<"Do not donate">>)

\* lines 316-342
PerishableVerdict(days_left, image_note) ==
    IF days_left >= 7 THEN
        LocalVerdict("safe_to_donate", 85,
            "SAFE: Perishable but fresh" \o image_note,
            <<"perishable">>, <<"Keep refrigerated">>)
    ELSE IF days_left >= 3 THEN
        LocalVerdict("consume_soon", 90,
            "CONSUME SOON: Perishable, eat within " \o IntStr(days_left)
                \o " days" \o image_note,
            <<"perishable", "time_sensitive">>, <<"Consume quickly", "Keep cold">>)
    ELSE
        LocalVerdict("reject", 88,
            "REJECT: Perishable, only " \o IntStr(days_left) \o " days left"
                \o image_note,
            <<"perishable", "too_close">>, <<"Do not donate">>)

\* lines 345-352
ShelfStableVerdict(image_note) ==
    LocalVerdict("safe_to_donate", 95,
        "EXCELLENT: Long shelf life" \o image_note,
        <<>>, <<"Good for donation">>)

\* the general tiers with safe_to_donate only after the seventh day
GeneralVerdictAfterSeven(days_left, image_note) ==
    IF days_left > 7 THEN
        LocalVerdict("safe_to_donate", 85,
            "GOOD: " \o IntStr(days_left) \o " days until expiry" \o image_note,
            <<>>, <<"Safe for donation">>)
    ELSE IF days_left >= 3 THEN
        LocalVerdict("consume_soon", 80,
            "CONSUME SOON: Should be eaten within " \o IntStr(days_left)
                \o " days" \o image_note,
            <<"approaching_expiry">>, <<"Consume quickly">>)
    ELSE
        LocalVerdict("reject", 90,
            "REJECT: Too close to expiry (" \o IntStr(days_left) \o " days)"
                \o image_note,
            <<"too_close">>, <<"Do not donate">>)

\* lines 355-381
GeneralVerdict(days_left, image_note) ==
    IF days_left >= 7 THEN
        LocalVerdict("safe_to_donate", 85,
            "GOOD: " \o IntStr(days_left) \o " days until expiry" \o image_note,
            <<>>, <<"Safe for donation">>)
    ELSE IF days_left >= 3 THEN
        LocalVerdict("consume_soon", 80,
            "CONSUME SOON: Should be eaten within " \o IntStr(days_left)
                \o " days" \o image_note,
            <<"approaching_expiry">>, <<"Consume quickly">>)
    ELSE
        LocalVerdict("reject", 90,
            "REJECT: Too close to expiry (" \o IntStr(days_left) \o " days)"
                \o image_note,
            <<"too_close">>, <<"Do not donate">>)

\* lines 290-381: the decision table, on the lower-cased text of line 284
LocalDecision(text, days_left, image_note) ==
    LET issues == WordsIn(spoilage_words, text)
    IN  IF IsExpired(days_left) THEN
            LocalVerdict("reject", 99,
                "EXPIRED: " \o IntStr(Abs(days_left)) \o " days past expiry" \o image_note,
                <<"expired">>, <<"Do not consume">>)
        ELSE IF issues # <<>> THEN
            LocalVerdict("reject", 95,
                "UNSAFE: " \o Join(", ", issues) \o " detected" \o image_note,
                issues, <<"Do not donate">>)
        ELSE IF IsPerishable(text) THEN PerishableVerdict(days_left, image_note)
        ELSE IF IsShelfStable(text) THEN ShelfStableVerdict(image_note)
        ELSE GeneralVerdict(days_left, image_note)

\* lines 282-381: text and image_note are computed once (lines 284, 287) and
\* the table is read on their values
_smart_local_ai(food_name, days_left, description, had_image) ==
    CHOOSE verdict \in
        {LocalDecision(text, days_left, image_note) :
            text \in {LocalText(food_name, description)},
            image_note \in {ImageNote(had_image)}} : TRUE

----------------------------------------------------------------------------
(* FoodSafetyImageClassifier._simple_fallback *)

FallbackVerdict(status, confidence, reason, risk_factors, recommendations) ==
    [status          |-> Str(status),
     confidence      |-> Num(confidence),
     reason          |-> Str(reason),
     risk_factors    |-> List(risk_factors),
     recommendations |-> List(recommendations),
     model           |-> Str("fallback")]

\* a last resort that fails closed
LastResortReject ==
    FallbackVerdict("reject", 0, "Default safe classification",
                    <<"system_error">>, <<"Check manually">>)

\* the verdict of the bare except clause (lines 426-434)
LastResortVerdict ==
    FallbackVerdict("safe_to_donate", 50, "Default safe classification",
                    <<"system_error">>, <<"Check manually">>)

\* the day buckets with safe_to_donate from six days on
SimpleFallbackBucketsFromSix(days_left) ==
    IF days_left < 0 THEN
        FallbackVerdict("reject", 99,
            "Expired " \o IntStr(Abs(days_left)) \o " days ago",
            <<"expired">>, <<"Do not consume">>)
    ELSE IF days_left >= 6 THEN
        FallbackVerdict("safe_to_donate", 85,
            "Good shelf life (" \o IntStr(days_left) \o " days)",
            <<>>, <<"Safe for donation">>)
    ELSE IF days_left >= 3 THEN
        FallbackVerdict("consume_soon", 80,
            "Should be eaten soon (" \o IntStr(days_left) \o " days)",
            <<"approaching_expiry">>, <<"Consume quickly">>)
    ELSE
        FallbackVerdict("reject", 90,
            "Too close to expiry (" \o IntStr(days_left) \o " days)",
            <<"too_close">>, <<"Do not donate">>)

\* the try body (lines 386-425), for a date that parsed
SimpleFallbackBuckets(days_left) ==
    IF days_left < 0 THEN
        FallbackVerdict("reject", 99,
            "Expired " \o IntStr(Abs(days_left)) \o " days ago",
            <<"expired">>, <<"Do not consume">>)
    ELSE IF days_left >= 7 THEN
        FallbackVerdict("safe_to_donate", 85,
            "Good shelf life (" \o IntStr(days_left) \o " days)",
            <<>>, <<"Safe for donation">>)
    ELSE IF days_left >= 3 THEN
        FallbackVerdict("consume_soon", 80,
            "Should be eaten soon (" \o IntStr(days_left) \o " days)",
            <<"approaching_expiry">>, <<"Consume quickly">>)
    ELSE
        FallbackVerdict("reject", 90,
            "Too close to expiry (" \o IntStr(days_left) \o " days)",
            <<"too_close">>, <<"Do not donate">>)

\* _simple_fallback without its bare except clause: the second date parse
\* raises again
SimpleFallbackNoExcept(food_name, expiry_date, error, today) ==
    LET expiry == Strptime(expiry_date)
    IN  IF expiry.ok
        THEN Returned(SimpleFallbackBuckets(ToOrdinal(expiry.date) - ToOrdinal(today)))
        ELSE Raised("ValueError")

\* today is datetime.now().date() as read at line 386
_simple_fallback(food_name, expiry_date, error, today) ==
    LET expiry == Strptime(expiry_date)
    IN  IF expiry.ok
        THEN Returned(SimpleFallbackBuckets(ToOrdinal(expiry.date) - ToOrdinal(today)))
        ELSE Returned(LastResortVerdict)

----------------------------------------------------------------------------
(* FoodSafetyImageClassifier._parse_ai_response *)

\* the match of the non-greedy pattern \{.*?\}: from the first "{" to the
\* first "}" after it
SearchBracesNonGreedy(text) ==
    LET first  == FirstIndexOf(text, "{")
        closes == {i \in (first + 1)..Len(text) : CharAt(text, i) = "}"}
        last   == IF first > 0 /\ closes # {}
                  THEN CHOOSE i \in closes : \A j \in closes : i <= j
                  ELSE 0
    IN  IF first > 0 /\ last > first
        THEN [found |-> TRUE, group |-> SubSeq(text, first, last)]
        ELSE [found |-> FALSE]

\* re.search(r'\{.*\}', text, re.DOTALL): the greedy match runs from the first
\* "{" to the last "}" after it; [found |-> FALSE] when there is none
SearchBraces(text) ==
    LET first == FirstIndexOf(text, "{")
        last  == LastIndexOf(text, "}")
    IN  IF first > 0 /\ last > first
        THEN [found |-> TRUE, group |-> SubSeq(text, first, last)]
        ELSE [found |-> FALSE]

\* json.loads on the texts a model of this development can reply with: the
\* parsed object of each well-formed one, an error for every other text
JsonLoads(text) ==
    CASE text = "{\"status\": \"REJECT\", \"confidence\": 0.9, \"reason\": \"visible mold\", \"risk_factors\": [\"mold\"], \"recommendations\": [\"discard\"]}"
           -> Returned([status |-> Str("REJECT"), confidence |-> Num(90),
                        reason |-> Str("visible mold"),
                        risk_factors |-> List(<<"mold">>),
                        recommendations |-> List(<<"discard">>)])
      [] text = "{\"status\": \"Consume_Soon\", \"confidence\": 0.85}"
           -> Returned([status |-> Str("Consume_Soon"), confidence |-> Num(85)])
      [] text = "{}"
           -> Returned(<<>>)
      [] text = "{\"status\": \"maybe\", \"confidence\": 5, \"model\": \"evil\", \"analysis_type\": \"spoof\", \"ai_type\": \"spoof\", \"image_analyzed\": false}"
           -> Returned([status |-> Str("maybe"), confidence |-> Num(500),
                        model |-> Str("evil"), analysis_type |-> Str("spoof"),
                        ai_type |-> Str("spoof"), image_analyzed |-> Bool(FALSE)])
      [] text = "{\"confidence\": \"high\", \"reason\": \"looks fine\"}"
           -> Returned([confidence |-> Str("high"), reason |-> Str("looks fine")])
      [] text = "{\"status\": 42}"
           -> Returned([status |-> Num(4200)])
      [] text = "{\"status\": \"reject\"}"
           -> Returned([status |-> Str("reject")])
      [] OTHER
           -> Raised("JSONDecodeError")

\* status_map.get(key, 'safe_to_donate')
StatusMapGet(key) ==
    CASE key = "SAFE_TO_DONATE" -> "safe_to_donate"
      [] key = "CONSUME_SOON"   -> "consume_soon"
      [] key = "REJECT"         -> "reject"
      [] OTHER                  -> "safe_to_donate"

\* 'vision' if is_vision else 'text'
AnalysisType(is_vision) == IF is_vision THEN "vision" ELSE "text"

\* lines 271-280: the verdict returned when the try block returned nothing
DegradedVerdict(model, is_vision) ==
    [status          |-> Str("safe_to_donate"),
     confidence      |-> Num(70),
     reason          |-> Str("AI analysis completed (" \o AnalysisType(is_vision) \o " mode)"),
     risk_factors    |-> List(<<"ai_analyzed">>),
     recommendations |-> List(<<"Check manually if unsure">>),
     model           |-> Str(SplitFirst(model, "/")),
     analysis_type   |-> Str(AnalysisType(is_vision))]

\* lines 250-251: a status that is no str has no upper() and raises
NormalizeStatus(result) ==
    IF "status" \notin DOMAIN result THEN Returned(result)
    ELSE IF IsStr(result["status"])
         THEN Returned(Put(result, "status",
                           Str(StatusMapGet(Upper(result["status"].str)))))
         ELSE Raised("AttributeError")

\* d with key k set to v unless d has k already
SetDefault(d, k, v) == IF k \in DOMAIN d THEN d ELSE Put(d, k, v)

\* the metadata filled in only where the reply gave none
AddMetadataIfMissing(result, model, is_vision) ==
    SetDefault(SetDefault(result, "model", Str(SplitFirst(model, "/"))),
               "analysis_type", Str(AnalysisType(is_vision)))

\* lines 253-255
AddMetadata(result, model, is_vision) ==
    Put(Put(result, "model", Str(SplitFirst(model, "/"))),
        "analysis_type", Str(AnalysisType(is_vision)))

\* the defaults written over what the reply supplied
EnsureFieldsOverwrite(result, model) ==
    Put(Put(Put(Put(result,
        "confidence", Num(80)),
        "reason", Str("Analyzed by " \o SplitFirst(model, "/"))),
        "risk_factors", List(<<>>)),
        "recommendations", List(<<>>))

\* lines 257-265
EnsureFields(result, model) ==
    SetDefault(SetDefault(SetDefault(SetDefault(result,
        "confidence", Num(80)),
        "reason", Str("Analyzed by " \o SplitFirst(model, "/"))),
        "risk_factors", List(<<>>)),
        "recommendations", List(<<>>))

\* ai_response is the reply's content: [str |-> text], or a value that is no
\* str, on which re.search raises
_parse_ai_response(ai_response, model, is_vision) ==
    IF ~IsStr(ai_response) THEN DegradedVerdict(model, is_vision)
    ELSE LET json_match == SearchBraces(ai_response.str)
         IN  IF ~json_match.found THEN DegradedVerdict(model, is_vision)
             ELSE LET loaded == JsonLoads(json_match.group)
                  IN  IF loaded.raised THEN DegradedVerdict(model, is_vision)
                      ELSE LET normalized == NormalizeStatus(loaded.value)
                           IN  IF normalized.raised
                               THEN DegradedVerdict(model, is_vision)
                               ELSE EnsureFields(
                                        AddMetadata(normalized.value, model, is_vision),
                                        model)

----------------------------------------------------------------------------
(* One external call: requests.post and what came back *)

\* An outcome of requests.post is [timeout |-> TRUE] (the call raised before a
\* response arrived) or [timeout |-> FALSE, status_code |-> n, text |-> t,
\* body |-> b], where b is the response body as response.json() sees it:
\*   [json |-> FALSE]                    no JSON: response.json() raises
\*   [json |-> TRUE, choices |-> FALSE]  JSON without "choices": KeyError
\*   [json |-> TRUE, choices |-> TRUE, content |-> c]
\*                                       c is choices[0].message.content
Timeout == [timeout |-> TRUE]
Response(status_code, text, body) ==
    [timeout |-> FALSE, status_code |-> status_code, text |-> text, body |-> body]

NoJsonBody == [json |-> FALSE]
NoChoicesBody == [json |-> TRUE, choices |-> FALSE]
ContentBody(c) == [json |-> TRUE, choices |-> TRUE, content |-> c]

\* text[:n]
Truncate(text, n) == SubSeq(text, 1, IF Len(text) < n THEN Len(text) ELSE n)

\* lines 136-137 and 174-175: response.json()["choices"][0]["message"]["content"]
ResponseContent(body) ==
    IF ~body.json THEN Raised("JSONDecodeError")
    ELSE IF ~body.choices THEN Raised("KeyError: 'choices'")
    ELSE Returned(body.content)

\* the reply text holds no parseable JSON: it has no {...} substring, or
\* json.loads rejects the one it has
Unparseable(content) ==
    IF ~IsStr(content) THEN FALSE
    ELSE LET json_match == SearchBraces(content.str)
         IN  IF ~json_match.found THEN TRUE
             ELSE JsonLoads(json_match.group).raised

\* a vision call that fails when the reply holds no parseable JSON
AnalyzeWithImageStrict(model, outcome) ==
    IF outcome.timeout THEN Raised("Timeout")
    ELSE IF outcome.status_code = 200
    THEN LET ai_response == ResponseContent(outcome.body)
         IN  IF ai_response.raised THEN ai_response
             ELSE IF Unparseable(ai_response.value)
                  THEN Raised("MalformedResponseError")
                  ELSE Returned(_parse_ai_response(ai_response.value, model, TRUE))
    ELSE Raised("API Error " \o IntStr(outcome.status_code) \o ": "
                \o Truncate(outcome.text, 100))

\* lines 133-140
_analyze_with_image(model, outcome) ==
    IF outcome.timeout THEN Raised("Timeout")
    ELSE IF outcome.status_code = 200
    THEN LET ai_response == ResponseContent(outcome.body)
         IN  IF ai_response.raised THEN ai_response
             ELSE Returned(_parse_ai_response(ai_response.value, model, TRUE))
    ELSE Raised("API Error " \o IntStr(outcome.status_code) \o ": "
                \o Truncate(outcome.text, 100))

\* lines 171-178
_analyze_text_only(model, outcome) ==
    IF outcome.timeout THEN Raised("Timeout")
    ELSE IF outcome.status_code = 200
    THEN LET ai_response == ResponseContent(outcome.body)
         IN  IF ai_response.raised THEN ai_response
             ELSE Returned(_parse_ai_response(ai_response.value, model, FALSE))
    ELSE Raised("API Error " \o IntStr(outcome.status_code))

----------------------------------------------------------------------------
(* Bounds and the inputs of the development *)

\* expiry dates range from MaxDaysPast days before today to MaxDaysAhead after
MaxDaysPast == 2
MaxDaysAhead == 7
\* the shelf life of the demo's canned soup, in days
DemoShelfLife == 400

DayOffsets == ((0 - MaxDaysPast)..MaxDaysAhead) \cup {DemoShelfLife}

Todays == {[y |-> 2026, m |-> 11, d |-> 6], [y |-> 2024, m |-> 2, d |-> 27]}

ApiKeys == {"", "sk-or-v1-key"}

FoodNames == {"Canned Soup", "Fresh Milk", "Bananas", "Canned Fish", "Sour Cream"}

Descriptions == {"", "Unopened carton", "Moldy spots, BAD smell"}

Images == {PyNone, Str(""), Str("aGVsbG8=")}

\* expiry_date arguments that are no date: no str, no match, a day out of range
BadDates == {PyNone, Str(""), Str("not-a-date"), Str("2026-02-30"), Str("11/08/2026")}

\* expiry_date arguments for today's date `today`
ExpiryDates(today) ==
    {Str(Strftime(FromOrdinal(ToOrdinal(today) + k))) : k \in DayOffsets}
    \cup {Str("2026-11-9")} \cup BadDates

ReplyContents ==
    {Str("{\"status\": \"REJECT\", \"confidence\": 0.9, \"reason\": \"visible mold\", \"risk_factors\": [\"mold\"], \"recommendations\": [\"discard\"]}"),
     Str("Here is my analysis: {\"status\": \"Consume_Soon\", \"confidence\": 0.85} Hope this helps"),
     Str("{}"),
     Str("{\"status\": \"maybe\", \"confidence\": 5, \"model\": \"evil\", \"analysis_type\": \"spoof\", \"ai_type\": \"spoof\", \"image_analyzed\": false}"),
     Str("{\"confidence\": \"high\", \"reason\": \"looks fine\"}"),
     Str("{\"status\": 42}"),
     Str("{\"status\": \"reject\"}"),
     Str("I cannot analyze this item."),
     Str("{\"status\": \"reject\"} and also {\"status\": \"safe_to_donate\"}"),
     Str("{not json}"),
     PyNone}

RateLimitText ==
    "Rate limit exceeded: free-models-per-day. Add credits to unlock more requests per day, then try the call again."

Outcomes ==
    {Timeout,
     Response(500, "Internal Server Error", NoJsonBody),
     Response(429, RateLimitText, NoJsonBody),
     Response(201, "", ContentBody(Str("{}"))),
     Response(200, "<html>Bad gateway</html>", NoJsonBody),
     Response(200, "{\"error\": \"no endpoints\"}", NoChoicesBody)}
    \cup {Response(200, "", ContentBody(c)) : c \in ReplyContents}

\* what the environment did in a call, apart from how it failed: the content
\* of a 200 response that has one, or no reply
EnvClass(outcome) ==
    IF ~outcome.timeout /\ outcome.status_code = 200
       /\ outcome.body.json /\ outcome.body.choices
    THEN [content |-> outcome.body.content]
    ELSE [noreply |-> TRUE]

----------------------------------------------------------------------------
(* State *)

VARIABLES
    api_key,        \* self.api_key
    vision_models,  \* self.vision_models
    text_models,    \* self.text_models
    use_api,        \* self.use_api
    clock,          \* datetime.now().date()
    pc,             \* where predict is: idle, vision, text, local, except,
                    \* done (returned), raised (an exception left predict)
    food_name,      \* predict's arguments
    expiry_date,
    description,
    image_base64,
    days_left,      \* predict's local: Num(n) once computed, PyNone before
    idx,            \* the position in the model list of the running loop
    error,          \* the message of the exception caught at line 88
    calls,          \* the external calls of this request, in order
    result,         \* the verdict predict returned, PyNone before
    prior,          \* the result and calls of the first run, while the same
                    \* request runs a second time; PyNone otherwise
    food_listings,  \* models.py: the rows of table food_listings, by id
    sessions,       \* app.py: the claim_donation requests being served
    utc_today,      \* datetime.utcnow().date(), as a day number
    returned,       \* what the last call of update_status returned
    food_listing,   \* donations.py: the rows of table food_listing, by id
    response        \* donations.py: the last response of its routes

vars == <<api_key, vision_models, text_models, use_api, clock, pc, food_name,
          expiry_date, description, image_base64, days_left, idx, error,
          calls, result, prior, food_listings, sessions, utc_today, returned,
          food_listing, response>>

config == <<api_key, vision_models, text_models, use_api, clock>>
args == <<food_name, expiry_date, description, image_base64>>

\* the marketplace's state (app.py, models.py, donations.py)
store == <<food_listings, sessions, utc_today, returned, food_listing, response>>

\* the classifier's state
classifier == <<config, args, pc, days_left, idx, error, calls, result, prior>>

IsNone(v) == "null" \in DOMAIN v

\* FoodSafetyImageClassifier.__init__ (lines 14-32)
Init ==
    /\ api_key \in ApiKeys
    /\ vision_models = <<"nvidia/nemotron-nano-12b-v2-vl:free",
                         "google/gemini-2.0-flash-exp:free",
                         "meta-llama/llama-3.2-11b-vision-instruct:free">>
    /\ text_models = <<"meta-llama/llama-3.2-3b-instruct:free",
                       "huggingfaceh4/zephyr-7b-beta:free",
                       "microsoft/phi-3-mini-128k-instruct:free">>
    /\ use_api = (api_key # "")
    /\ clock \in Todays
    /\ pc = "idle"
    /\ food_name = ""
    /\ expiry_date = PyNone
    /\ description = ""
    /\ image_base64 = PyNone
    /\ days_left = PyNone
    /\ idx = 0
    /\ error = ""
    /\ calls = <<>>
    /\ result = PyNone
    /\ prior = PyNone
    /\ food_listings = <<>>
    /\ sessions = <<>>
    /\ utc_today = 0
    /\ returned = PyNone
    /\ food_listing = <<>>
    /\ response = PyNone

----------------------------------------------------------------------------
(* FoodSafetyImageClassifier.predict *)

\* the vision tier skipped while the verdict of an earlier call is still held
VisionGateCached(image, use) == Truthy(image) /\ use /\ IsNone(result)

\* the vision tier entered whether or not there is an image
VisionGateNoImage(image, use) == use

\* line 53: if image_base64 and self.use_api
VisionGate(image, use) == Truthy(image) /\ use

\* the text tier entered whatever days_left is
TextGateAnyDays(use, days) == use

\* the text tier entered for food that expired yesterday as well
TextGateFromYesterday(use, days) == use /\ days >= -1

\* line 69: if self.use_api and days_left >= 0
TextGate(use, days) == use /\ days >= 0

\* the vision tier's tag without the image flag
VisionStampNoFlag(verdict, model) ==
    Put(verdict, "ai_type", Str("vision_ai_" \o SplitFirst(model, "/")))

\* lines 60-61
VisionStamp(verdict, model) ==
    Put(Put(verdict, "ai_type", Str("vision_ai_" \o SplitFirst(model, "/"))),
        "image_analyzed", Bool(TRUE))

\* lines 75-76
TextStamp(verdict, model) ==
    Put(Put(verdict, "ai_type", Str("text_ai_" \o SplitFirst(model, "/"))),
        "image_analyzed", Bool(FALSE))

\* the local fallback called without the description
LocalResultNoDescription(name, days, desc, image) ==
    Put(Put(_smart_local_ai(name, days, "", ~IsNone(image)),
            "ai_type", Str("local_ai")),
        "image_analyzed", Bool(~IsNone(image)))

\* the local tier answering from the day buckets of _simple_fallback
LocalResultFromBuckets(name, days, desc, image) ==
    Put(Put(SimpleFallbackBuckets(days), "ai_type", Str("local_ai")),
        "image_analyzed", Bool(~IsNone(image)))

\* lines 83-85
LocalResult(name, days, desc, image) ==
    Put(Put(_smart_local_ai(name, days, desc, ~IsNone(image)),
            "ai_type", Str("local_ai")),
        "image_analyzed", Bool(~IsNone(image)))

\* the vision loop followed by the local classifier at once
AfterVisionToLocal(days) == "local"

\* where predict goes once the vision loop is over or was skipped (lines 68-82)
AfterVision(days) ==
    IF TextGate(use_api, days) /\ text_models # <<>> THEN "text" ELSE "local"

\* the record of one external call
CallRecord(tier, model, outcome, r) ==
    [tier |-> tier, model |-> model, env |-> EnvClass(outcome), ok |-> ~r.raised]

\* in a second run of a request the environment answers the call to a model
\* as it answered the first run's call at that position
EnvRepeats(model, outcome) ==
    IF IsNone(prior) THEN TRUE
    ELSE IF Len(calls) >= Len(prior.calls) THEN TRUE
    ELSE IF prior.calls[Len(calls) + 1].model # model THEN TRUE
    ELSE prior.calls[Len(calls) + 1].env = EnvClass(outcome)

\* lines 46-53: predict is entered, parses the dates and picks the first tier
Start(fn, ed, desc, img) ==
    /\ pc \in {"idle", "done"}
    /\ food_name' = fn
    /\ expiry_date' = ed
    /\ description' = desc
    /\ image_base64' = img
    /\ calls' = <<>>
    /\ result' = PyNone
    /\ LET expiry == Strptime(ed)
       IN  IF ~expiry.ok
           THEN /\ pc' = "except"
                /\ error' = "ValueError"
                /\ days_left' = PyNone
                /\ idx' = 0
           ELSE LET days == ToOrdinal(expiry.date) - ToOrdinal(clock)
                IN  /\ days_left' = Num(days)
                    /\ error' = ""
                    /\ IF VisionGate(img, use_api) /\ vision_models # <<>>
                       THEN pc' = "vision" /\ idx' = 1
                       ELSE pc' = AfterVision(days) /\ idx' = 1
    /\ UNCHANGED <<config, store>>

\* a caller invokes predict(food_name, expiry_date, description, image_base64)
Predict ==
    /\ pc = "idle"
    /\ \E fn \in FoodNames, ed \in ExpiryDates(clock),
          desc \in Descriptions, img \in Images :
           Start(fn, ed, desc, img)
    /\ prior' = PyNone

\* lines 55-66: one iteration of the loop over self.vision_models
VisionAttempt ==
    /\ pc = "vision"
    /\ \E outcome \in Outcomes :
           LET model == vision_models[idx]
               r     == _analyze_with_image(model, outcome)
           IN  /\ EnvRepeats(model, outcome)
               /\ calls' = Append(calls, CallRecord("vision", model, outcome, r))
               /\ IF ~r.raised
                  THEN /\ result' = VisionStamp(r.value, model)
                       /\ pc' = "done"
                       /\ idx' = idx
                  ELSE /\ result' = result
                       /\ IF idx < Len(vision_models)
                          THEN pc' = "vision" /\ idx' = idx + 1
                          ELSE pc' = AfterVision(days_left.num) /\ idx' = 1
    /\ UNCHANGED <<store, config, args, days_left, error, prior>>

\* the text loop handing over to the vision loop when it is exhausted
TextAttemptBackToVision ==
    /\ pc = "text"
    /\ \E outcome \in Outcomes :
           LET model == text_models[idx]
               r     == _analyze_text_only(model, outcome)
           IN  /\ EnvRepeats(model, outcome)
               /\ calls' = Append(calls, CallRecord("text", model, outcome, r))
               /\ IF ~r.raised
                  THEN /\ result' = TextStamp(r.value, model)
                       /\ pc' = "done"
                       /\ idx' = idx
                  ELSE /\ result' = result
                       /\ IF idx < Len(text_models)
                          THEN pc' = "text" /\ idx' = idx + 1
                          ELSE /\ idx' = 1
                               /\ pc' = IF Truthy(image_base64)
                                        THEN "vision" ELSE "local"
    /\ UNCHANGED <<store, config, args, days_left, error, prior>>

\* the text loop calling a model that failed once more
TextAttemptRetrying ==
    /\ pc = "text"
    /\ \E outcome \in Outcomes :
           LET model == text_models[idx]
               r     == _analyze_text_only(model, outcome)
           IN  /\ EnvRepeats(model, outcome)
               /\ calls' = Append(calls, CallRecord("text", model, outcome, r))
               /\ IF ~r.raised
                  THEN /\ result' = TextStamp(r.value, model)
                       /\ pc' = "done"
                       /\ idx' = idx
                  ELSE /\ result' = result
                       /\ pc' = "text"
                       /\ idx' = idx
    /\ UNCHANGED <<store, config, args, days_left, error, prior>>

\* lines 70-80: one iteration of the loop over self.text_models
TextAttempt ==
    /\ pc = "text"
    /\ \E outcome \in Outcomes :
           LET model == text_models[idx]
               r     == _analyze_text_only(model, outcome)
           IN  /\ EnvRepeats(model, outcome)
               /\ calls' = Append(calls, CallRecord("text", model, outcome, r))
               /\ IF ~r.raised
                  THEN /\ result' = TextStamp(r.value, model)
                       /\ pc' = "done"
                       /\ idx' = idx
                  ELSE /\ result' = result
                       /\ IF idx < Len(text_models)
                          THEN pc' = "text" /\ idx' = idx + 1
                          ELSE pc' = "local" /\ idx' = 1
    /\ UNCHANGED <<store, config, args, days_left, error, prior>>

\* the local classifier decides and the classifier gives up on the API
LocalFallbackDisablesApi ==
    /\ pc = "local"
    /\ result' = LocalResult(food_name, days_left.num, description, image_base64)
    /\ pc' = "done"
    /\ use_api' = FALSE
    /\ UNCHANGED <<store, api_key, vision_models, text_models, clock, args, days_left,
                   idx, error, calls, prior>>

\* the local classifier decides only for food that has not expired
LocalFallbackOnlyFresh ==
    /\ pc = "local"
    /\ days_left.num >= 0
    /\ result' = LocalResult(food_name, days_left.num, description, image_base64)
    /\ pc' = "done"
    /\ UNCHANGED <<store, config, args, days_left, idx, error, calls, prior>>

\* lines 82-86: the local classifier decides
LocalFallback ==
    /\ pc = "local"
    /\ result' = LocalResult(food_name, days_left.num, description, image_base64)
    /\ pc' = "done"
    /\ UNCHANGED <<store, config, args, days_left, idx, error, calls, prior>>

\* lines 88-89: the handler of predict's outer try
SimpleFallback ==
    /\ pc = "except"
    /\ LET r == _simple_fallback(food_name, expiry_date, error, clock)
       IN  IF r.raised
           THEN pc' = "raised" /\ result' = result /\ error' = r.error
           ELSE pc' = "done" /\ result' = r.value /\ error' = error
    /\ UNCHANGED <<store, config, args, days_left, idx, calls, prior>>

\* the caller has the verdict (or the exception); the request is discarded
Discard ==
    /\ pc \in {"done", "raised"}
    /\ pc' = "idle"
    /\ food_name' = ""
    /\ expiry_date' = PyNone
    /\ description' = ""
    /\ image_base64' = PyNone
    /\ days_left' = PyNone
    /\ idx' = 0
    /\ error' = ""
    /\ calls' = <<>>
    /\ result' = PyNone
    /\ prior' = PyNone
    /\ UNCHANGED <<config, store>>

\* the caller invokes predict again with the arguments of the request that
\* has just returned, on the same classifier and the same day
Replay ==
    /\ pc = "done"
    /\ IsNone(prior)
    /\ prior' = [result |-> result, calls |-> calls]
    /\ Start(food_name, expiry_date, description, image_base64)

Next ==
    \/ Predict
    \/ VisionAttempt
    \/ TextAttempt
    \/ LocalFallback
    \/ SimpleFallback
    \/ Discard

Spec == Init /\ [][Next]_vars

\* predict runs in its caller's thread: once called, each step of lines 41-89
\* is taken, and every requests.post returns or raises within its timeout
\* (lines 133, 171), so a pending step does not wait forever. Calling predict
\* and discarding a result are the caller's choice and are not forced.
Fairness ==
    /\ WF_vars(VisionAttempt)
    /\ WF_vars(TextAttempt)
    /\ WF_vars(LocalFallback)
    /\ WF_vars(SimpleFallback)

SpecLive == Spec /\ Fairness

NextReplay == Next \/ Replay

SpecReplay == Init /\ [][NextReplay]_vars

----------------------------------------------------------------------------
(* One invocation on its own *)

\* _analyze_with_image (lines 91-140) or _analyze_text_only (lines 142-178)
\* is called for one configured model, outside predict. The call record keeps
\* the whole outcome of requests.post; error is the message of the exception
\* the invoker raised ("" when it returned) and result the verdict it
\* returned, as the invoker returns it.
Invoke ==
    /\ pc = "idle"
    /\ \E tier \in {"vision", "text"}, i \in 1..3, outcome \in Outcomes :
           LET model == IF tier = "vision" THEN vision_models[i] ELSE text_models[i]
               r     == IF tier = "vision"
                        THEN _analyze_with_image(model, outcome)
                        ELSE _analyze_text_only(model, outcome)
           IN  /\ calls' = <<[tier |-> tier, model |-> model,
                              env |-> EnvClass(outcome), ok |-> ~r.raised,
                              outcome |-> outcome]>>
               /\ IF r.raised
                  THEN error' = r.error /\ result' = PyNone
                  ELSE error' = "" /\ result' = r.value
    /\ pc' = "invoked"
    /\ UNCHANGED <<store, config, args, days_left, idx, prior>>

\* the caller of the invoker has its verdict or its exception
InvokeDone ==
    /\ pc = "invoked"
    /\ pc' = "idle"
    /\ calls' = <<>>
    /\ error' = ""
    /\ result' = PyNone
    /\ UNCHANGED <<store, config, args, days_left, idx, prior>>

NextInvoke == Invoke \/ InvokeDone

SpecInvoke == Init /\ [][NextInvoke]_vars

\* _simple_fallback called on its own (lines 383-434), with any food name,
\* expiry date and error text
FallbackCall ==
    /\ pc = "idle"
    /\ \E fn \in FoodNames, ed \in ExpiryDates(clock),
          e \in {"ValueError", "TypeError"} :
           LET r == _simple_fallback(fn, ed, e, clock)
           IN  /\ food_name' = fn
               /\ expiry_date' = ed
               /\ error' = e
               /\ result' = r.value
    /\ pc' = "fallback"
    /\ UNCHANGED <<store, config, description, image_base64, days_left, idx,
                   calls, prior>>

\* the caller drops the verdict
FallbackDone ==
    /\ pc = "fallback"
    /\ pc' = "idle"
    /\ food_name' = ""
    /\ expiry_date' = PyNone
    /\ error' = ""
    /\ result' = PyNone
    /\ UNCHANGED <<store, config, description, image_base64, days_left, idx,
                   calls, prior>>

NextFallback == FallbackCall \/ FallbackDone

SpecFallback == Init /\ [][NextFallback]_vars

----------------------------------------------------------------------------
(* models.py: FoodListing *)

MaxListings == 2
MaxDay == 2

\* the values of FoodListing.status (the comment at models.py line 65)
Statuses == {"available", "claimed", "delivered", "expired"}

\* days as numbers; expiry_date is nullable
Days == 0..MaxDay
ExpiryValues == {PyNone} \cup {Num(d) : d \in Days}

\* a FoodListing, by the two columns the status logic reads
Listings == [status : Statuses, expiry_date : ExpiryValues]

ListingIds == 1..MaxListings

\* models.py lines 123-127: FoodListing.is_expired
is_expired(listing, today) ==
    IF IsNone(listing.expiry_date) THEN FALSE
    ELSE listing.expiry_date.num < today

\* update_status expiring a listing whatever its status
UpdateStatusAnyStatus(listing, today) ==
    IF is_expired(listing, today)
    THEN [self |-> [listing EXCEPT !.status = "expired"], ret |-> TRUE]
    ELSE [self |-> listing, ret |-> FALSE]

\* models.py lines 129-134: FoodListing.update_status; self is the listing
\* after the call and ret what the call returns
update_status(listing, today) ==
    IF is_expired(listing, today) /\ listing.status = "available"
    THEN [self |-> [listing EXCEPT !.status = "expired"], ret |-> TRUE]
    ELSE [self |-> listing, ret |-> FALSE]

\* the classifier is idle while the marketplace runs
ClassifierIdle ==
    /\ api_key = ""
    /\ vision_models = <<>>
    /\ text_models = <<>>
    /\ use_api = FALSE
    /\ clock = [y |-> 2024, m |-> 2, d |-> 27]
    /\ pc = "idle"
    /\ food_name = ""
    /\ expiry_date = PyNone
    /\ description = ""
    /\ image_base64 = PyNone
    /\ days_left = PyNone
    /\ idx = 0
    /\ error = ""
    /\ calls = <<>>
    /\ result = PyNone
    /\ prior = PyNone

\* listings with any status and expiry date, on any day
InitModels ==
    /\ ClassifierIdle
    /\ food_listings \in [ListingIds -> Listings]
    /\ utc_today \in Days
    /\ returned = PyNone
    /\ sessions = <<>>
    /\ food_listing = <<>>
    /\ response = PyNone

\* a caller invokes listing.update_status() on the listing with this id
UpdateStatus(id) ==
    LET r == update_status(food_listings[id], utc_today)
    IN  /\ food_listings' = [food_listings EXCEPT ![id] = r.self]
        /\ returned' = [id |-> id, ret |-> r.ret, day |-> utc_today]
        /\ UNCHANGED <<classifier, sessions, utc_today, food_listing, response>>

\* midnight (UTC) passes
Tick ==
    /\ utc_today < MaxDay
    /\ utc_today' = utc_today + 1
    /\ UNCHANGED <<classifier, food_listings, sessions, returned, food_listing,
                   response>>

NextModels == (\E id \in ListingIds : UpdateStatus(id)) \/ Tick

SpecModels == InitModels /\ [][NextModels]_vars

----------------------------------------------------------------------------
(* app.py: claim_donation *)

MaxRequests == 2

\* the requests POST /api/donations/<id>/claim being served, each in its own
\* thread with its own database session
Requests == 1..MaxRequests

\* the ids a request can name: those of the listings and one that is unknown
DonationIds == 1..(MaxListings + 1)

\* a request that has not arrived yet
NoRequest == [pc |-> "idle", donation_id |-> 0, code |-> 0, body |-> ""]

\* FoodListing.query.get(donation_id): the row as the session reads it, None
\* when there is no such row
QueryGet(id) == IF id \in DOMAIN food_listings THEN food_listings[id] ELSE PyNone

\* the checks of claim_donation without the test of the status
ClaimChecksNoStatus(donation) ==
    IF IsNone(donation)
    THEN [code |-> 404, body |-> "Donation not found"]
    ELSE [code |-> 0, body |-> ""]

\* app.py lines 211-215: the error response for the row that was read, code 0
\* when the handler goes on to claim it
ClaimChecks(donation) ==
    IF IsNone(donation)
    THEN [code |-> 404, body |-> "Donation not found"]
    ELSE IF donation.status # "available"
    THEN [code |-> 400, body |-> "Donation is already " \o donation.status]
    ELSE [code |-> 0, body |-> ""]

\* app.py lines 210-217: a request reads the row, answers 404 or 400, or
\* sets status on its copy of the row and goes on to commit
ClaimRead(r, id) ==
    /\ sessions[r].pc = "idle"
    /\ LET answer == ClaimChecks(QueryGet(id))
       IN  sessions' = [sessions EXCEPT ![r] =
               IF answer.code # 0
               THEN [pc |-> "done", donation_id |-> id,
                     code |-> answer.code, body |-> answer.body]
               ELSE [pc |-> "commit", donation_id |-> id, code |-> 0, body |-> ""]]
    /\ UNCHANGED <<classifier, food_listings, utc_today, returned, food_listing,
                   response>>

\* app.py lines 218-223: db.session.commit() writes status 'claimed' to the row
\* and the request answers with success
ClaimCommit(r) ==
    /\ sessions[r].pc = "commit"
    /\ food_listings' =
           [food_listings EXCEPT ![sessions[r].donation_id].status = "claimed"]
    /\ sessions' = [sessions EXCEPT ![r] =
           [pc |-> "done", donation_id |-> sessions[r].donation_id,
            code |-> 200, body |-> "Donation claimed successfully"]]
    /\ UNCHANGED <<classifier, utc_today, returned, food_listing, response>>

\* app.py lines 224-225: db.session.commit() raises (the database is locked by
\* another writer) and the request answers 500; nothing is written
ClaimCommitFails(r) ==
    /\ sessions[r].pc = "commit"
    /\ sessions' = [sessions EXCEPT ![r] =
           [pc |-> "done", donation_id |-> sessions[r].donation_id,
            code |-> 500, body |-> "database is locked"]]
    /\ UNCHANGED <<classifier, food_listings, utc_today, returned, food_listing,
                   response>>

\* listings of any status; no request has arrived
InitClaim ==
    /\ ClassifierIdle
    /\ food_listings \in
           [ListingIds -> {l \in Listings : l.expiry_date = Num(MaxDay)}]
    /\ sessions = [r \in Requests |-> NoRequest]
    /\ utc_today = 0
    /\ returned = PyNone
    /\ food_listing = <<>>
    /\ response = PyNone

NextClaim ==
    \E r \in Requests :
        \/ \E id \in DonationIds : ClaimRead(r, id)
        \/ ClaimCommit(r)
        \/ ClaimCommitFails(r)

SpecClaim == InitClaim /\ [][NextClaim]_vars

----------------------------------------------------------------------------
(* donations.py: receiver_dashboard and take_listing *)

\* the status values of a row of food_listing; 'assigned' is the one the
\* comment at donations.py line 31 names
RowStatuses == Statuses \cup {"assigned"}

\* the table food_listing: a row for some of the ids
Tables == UNION {[ids -> RowStatuses] : ids \in SUBSET ListingIds}

\* line 17: SELECT * FROM food_listing WHERE status='available'
AvailableListings == {id \in DOMAIN food_listing : food_listing[id] = "available"}

\* donations.py lines 10-21: GET /receiver renders the available listings
ReceiverDashboard ==
    /\ response' = [route |-> "receiver", listings |-> AvailableListings]
    /\ UNCHANGED <<classifier, food_listings, sessions, utc_today, returned,
                   food_listing>>

\* donations.py lines 23-36: GET /take/<listing_id> deletes the row with that
\* id, if any, and redirects to the dashboard
TakeListing(listing_id) ==
    /\ food_listing' =
           [id \in DOMAIN food_listing \ {listing_id} |-> food_listing[id]]
    /\ response' = [route |-> "take", listing_id |-> listing_id]
    /\ UNCHANGED <<classifier, food_listings, sessions, utc_today, returned>>

InitTake ==
    /\ ClassifierIdle
    /\ food_listings = <<>>
    /\ sessions = <<>>
    /\ utc_today = 0
    /\ returned = PyNone
    /\ food_listing \in Tables
    /\ response = PyNone

NextTake == ReceiverDashboard \/ (\E id \in DonationIds : TakeListing(id))

SpecTake == InitTake /\ [][NextTake]_vars

----------------------------------------------------------------------------
(* Vocabulary of the properties *)

\* predict has returned a verdict to its caller
Returns == pc = "done"

\* expiry_date parses; DaysLeft is then expiry - today in days
DateParses == Strptime(expiry_date).ok
DaysLeft == ToOrdinal(Strptime(expiry_date).date) - ToOrdinal(clock)

\* no external call of the request got a reply: each one timed out, or came
\* back with a status other than 200, or with a body that holds no content
NoCallReplied == \A i \in 1..Len(calls) : "noreply" \in DOMAIN calls[i].env

\* the verdict was built from the reply to the last call
FromReply == calls # <<>> /\ "content" \in DOMAIN calls[Len(calls)].env

LastCall == calls[Len(calls)]

VerdictKeys ==
    {"status", "confidence", "reason", "risk_factors", "recommendations",
     "model", "ai_type", "image_analyzed"}

StatusValues == {Str("safe_to_donate"), Str("consume_soon"), Str("reject")}

\* s is t, or t followed by the image-failure note
SameUpToImageNote(s, t) == s = t \/ s = t \o ImageNote(TRUE)

----------------------------------------------------------------------------
(* Properties *)

\* C1: predict never lets an exception reach its caller: whatever the
\* arguments and whatever each external call does, predict ends by returning.
C1_NeverRaises == pc # "raised"

\* C1 witness: predict has returned after its outer handler caught the
\* exception of an expiry_date that does not parse, image supplied
C1_Witness ==
    /\ Returns
    /\ error = "ValueError"
    /\ Truthy(image_base64)
    /\ ~IsNone(result)

\* C2: every verdict predict returns carries status, confidence, reason,
\* risk_factors, recommendations, model, ai_type and image_analyzed.
C2_FullyPopulated == Returns => VerdictKeys \subseteq DOMAIN result

\* C3: every verdict predict returns has one of the three status values and a
\* numeric confidence between 0 and 1 (0 and 100 hundredths).
C3_StatusAndConfidence ==
    Returns =>
        /\ "status" \in DOMAIN result
        /\ result["status"] \in StatusValues
        /\ "confidence" \in DOMAIN result
        /\ IsNum(result["confidence"])
        /\ result["confidence"].num >= 0
        /\ result["confidence"].num <= 100

\* C4: when the date parses and no external call of the request got a reply,
\* the verdict's status, confidence, risk_factors and recommendations are
\* those of _smart_local_ai for the same food_name, days_left and description,
\* its reason is that of _smart_local_ai up to the image-failure note, and the
\* verdict is tagged as the local tier.
C4_FallbackMonotonicity ==
    (Returns /\ DateParses /\ NoCallReplied) =>
        LET local == _smart_local_ai(food_name, DaysLeft, description, FALSE)
        IN  /\ VerdictKeys \subseteq DOMAIN result
            /\ result["status"] = local["status"]
            /\ result["confidence"] = local["confidence"]
            /\ result["risk_factors"] = local["risk_factors"]
            /\ result["recommendations"] = local["recommendations"]
            /\ SameUpToImageNote(result["reason"].str, local["reason"].str)
            /\ result["ai_type"] = Str("local_ai")
            /\ result["model"] = Str("local_ai")

\* C4 witness: all three vision models and all three text models were called,
\* none replied, and predict returned for a description with spoilage words
C4_Witness ==
    /\ Returns
    /\ DateParses
    /\ NoCallReplied
    /\ Len(calls) = 6
    /\ description = "Moldy spots, BAD smell"

\* an image was supplied and its analysis failed: the vision tier was tried
ImageFailed == \E i \in 1..Len(calls) : calls[i].tier = "vision"

\* C5: a verdict of the text tier has image_analyzed = (an image was present
\* but its analysis failed); with an image, failed vision models and a text
\* success it is true.
C5_TextTierImageConsidered ==
    (Returns /\ FromReply /\ LastCall.tier = "text") =>
        /\ "image_analyzed" \in DOMAIN result
        /\ result["image_analyzed"] = Bool(ImageFailed)

\* C6: when the date parses to a day before today and no external call got a
\* reply, the verdict is reject with confidence 0.99 and risk_factors
\* [expired], whatever the food name, the description and the image.
C6_ExpiredRejected ==
    (Returns /\ DateParses /\ DaysLeft < 0 /\ NoCallReplied) =>
        /\ VerdictKeys \subseteq DOMAIN result
        /\ result["status"] = Str("reject")
        /\ result["confidence"] = Num(99)
        /\ result["risk_factors"] = List(<<"expired">>)

\* C6 witness: an item that expired yesterday, image supplied, the three
\* vision models fail, and the description names spoilage
C6_Witness ==
    /\ Returns
    /\ DateParses
    /\ DaysLeft = -1
    /\ NoCallReplied
    /\ Len(calls) = 3
    /\ description = "Moldy spots, BAD smell"

\* the spoilage keywords that the description contains, case-insensitively
DescriptionKeywords ==
    {spoilage_words[i] : i \in {j \in 1..Len(spoilage_words) :
                                   Contains(Lower(description), spoilage_words[j])}}

\* the tags of the verdict's risk_factors
RiskTags == {result["risk_factors"].list[i] : i \in 1..Len(result["risk_factors"].list)}

\* C7 as stated: for any days_left, a description with a spoilage keyword and
\* no external reply give reject, with every matched keyword in risk_factors.
C7_SpoilageAnyDaysLeft ==
    (Returns /\ DateParses /\ NoCallReplied /\ DescriptionKeywords # {}) =>
        /\ result["status"] = Str("reject")
        /\ DescriptionKeywords \subseteq RiskTags

\* C7 amended: for days_left >= 0, a description with a spoilage keyword and
\* no external reply give reject, with every matched keyword in risk_factors.
C7_SpoilageNotExpired ==
    (Returns /\ DateParses /\ DaysLeft >= 0 /\ NoCallReplied
     /\ DescriptionKeywords # {}) =>
        /\ result["status"] = Str("reject")
        /\ DescriptionKeywords \subseteq RiskTags

\* C7 witness: bananas that expire in two days, "Moldy spots, BAD smell", all
\* external calls without reply
C7_Witness ==
    /\ Returns
    /\ DateParses
    /\ DaysLeft = 2
    /\ NoCallReplied
    /\ calls # <<>>
    /\ food_name = "Bananas"
    /\ DescriptionKeywords = {"mold", "bad"}

C9_Deterministic == (Returns /\ ~IsNone(prior)) => result = prior.result

\* C9 witness: the second run has returned after three vision failures and a
\* text reply, as the first run did
C9_Witness ==
    /\ Returns
    /\ ~IsNone(prior)
    /\ Len(calls) = 4
    /\ FromReply
    /\ Len(prior.calls) = 4

\* the provider prefix of each configured model, by position
VisionProviders == <<"nvidia", "google", "meta-llama">>
TextProviders == <<"meta-llama", "huggingfaceh4", "microsoft">>

\* the provider of the model of the last call
LastProvider ==
    IF LastCall.tier = "vision"
    THEN VisionProviders[CHOOSE i \in 1..Len(vision_models) :
                             vision_models[i] = LastCall.model]
    ELSE TextProviders[CHOOSE i \in 1..Len(text_models) :
                           text_models[i] = LastCall.model]

\* C10: in a verdict built from a model reply, model, analysis_type, ai_type
\* and image_analyzed are those of the call (the model called and its tier),
\* whatever the reply holds under these keys.
C10_StampedFromContext ==
    (Returns /\ FromReply) =>
        /\ {"model", "analysis_type", "ai_type", "image_analyzed"}
               \subseteq DOMAIN result
        /\ result["model"] = Str(LastProvider)
        /\ result["analysis_type"] = Str(LastCall.tier)
        /\ result["ai_type"] = Str(LastCall.tier \o "_ai_" \o LastProvider)
        /\ result["image_analyzed"] = Bool(LastCall.tier = "vision")

\* C10 witness: the verdict was built from a reply that sets model,
\* analysis_type, ai_type and image_analyzed itself
C10_Witness ==
    /\ Returns
    /\ FromReply
    /\ IsStr(LastCall.env.content)
    /\ Contains(LastCall.env.content.str, "\"model\": \"evil\"")
    /\ Contains(LastCall.env.content.str, "\"image_analyzed\": false")

VisionCallsInOrder ==
    \A i \in 1..Len(calls) :
        calls[i].tier = "vision" =>
            /\ i <= Len(vision_models)
            /\ calls[i].model = vision_models[i]

\* the verdict is the normalized reply to call i, tagged as the vision tier
IsVisionVerdictOf(i) ==
    LET normalized == _parse_ai_response(calls[i].env.content, calls[i].model, TRUE)
    IN  /\ DOMAIN result = DOMAIN normalized \cup {"ai_type", "image_analyzed"}
        /\ result["image_analyzed"] = Bool(TRUE)
        /\ result["ai_type"] = Str("vision_ai_" \o VisionProviders[i])
        /\ \A k \in DOMAIN normalized \ {"ai_type", "image_analyzed"} :
               result[k] = normalized[k]

\* C12: vision models are called in list order, and the first one that
\* succeeds ends the request: every earlier call failed, no call follows it,
\* predict has returned, and the verdict is the normalized reply of that
\* model with image_analyzed = true and the vision tag of its provider (so
\* neither a text model nor the local classifier produced it).
C12_FirstVisionSuccessEnds ==
    /\ VisionCallsInOrder
    /\ \A i \in 1..Len(calls) :
           (calls[i].tier = "vision" /\ calls[i].ok) =>
               /\ i = Len(calls)
               /\ \A j \in 1..(i - 1) : ~calls[j].ok
               /\ Returns
               /\ IsVisionVerdictOf(i)

\* C12 witness: the first vision model failed, the second replied "REJECT",
\* and predict returned reject
C12_Witness ==
    /\ Returns
    /\ Len(calls) = 2
    /\ ~calls[1].ok
    /\ calls[2].tier = "vision"
    /\ calls[2].ok
    /\ result["status"] = Str("reject")

\* the models that apply to the request, in cascade order: the vision models
\* when an image is supplied and the API is enabled, then the text models
\* when the API is enabled and the item has not expired
ApplicableModels ==
    (IF Truthy(image_base64) /\ use_api THEN vision_models ELSE <<>>)
    \o (IF use_api /\ DaysLeft >= 0 THEN text_models ELSE <<>>)

\* the models called so far, in call order
CalledModels == [i \in 1..Len(calls) |-> calls[i].model]

\* every call before the last one failed
OnlyLastMaySucceed == \A i \in 1..(Len(calls) - 1) : ~calls[i].ok

\* C13: a failed model call never ends the cascade. In a request whose date
\* parses the calls made so far are the first applicable models in cascade
\* order; while a tier's loop runs, the model it calls next is the applicable
\* model after the ones that failed; the local classifier is reached, and a
\* verdict returned, only when the last call succeeded or every applicable
\* model has been called.
C13_FailureNeverEndsCascade ==
    DateParses =>
        /\ Len(calls) <= Len(ApplicableModels)
        /\ \A i \in 1..Len(calls) : calls[i].model = ApplicableModels[i]
        /\ OnlyLastMaySucceed
        /\ pc = "vision" =>
               /\ Len(calls) < Len(ApplicableModels)
               /\ vision_models[idx] = ApplicableModels[Len(calls) + 1]
        /\ pc = "text" =>
               /\ Len(calls) < Len(ApplicableModels)
               /\ text_models[idx] = ApplicableModels[Len(calls) + 1]
        /\ pc = "local" => CalledModels = ApplicableModels
        /\ pc \in {"vision", "text", "local"} =>
               \A i \in 1..Len(calls) : ~calls[i].ok
        /\ Returns =>
               \/ calls # <<>> /\ LastCall.ok
               \/ CalledModels = ApplicableModels

\* C13 witness: the three vision models and the first text model have failed
\* and the cascade stands at the second text model
C13_Witness ==
    /\ pc = "text"
    /\ idx = 2
    /\ Len(calls) = 4
    /\ ~calls[4].ok
    /\ calls[4].tier = "text"

\* no text model has been called
NoTextCall == \A i \in 1..Len(calls) : calls[i].tier # "text"

\* no vision model has succeeded
NoVisionSuccess == \A i \in 1..Len(calls) : calls[i].tier = "vision" => ~calls[i].ok

\* C14 as stated: with days_left < 0 no text model is ever called; with
\* days_left >= 0 and no earlier success the text tier is entered, so a
\* returned request has called a text model.
C14_TextTierByDaysLeft ==
    DateParses =>
        /\ DaysLeft < 0 => NoTextCall
        /\ (Returns /\ DaysLeft >= 0 /\ NoVisionSuccess) => ~NoTextCall

\* C14 amended: with days_left < 0 no text model is ever called; with the API
\* enabled, days_left >= 0 and no earlier success the text tier is entered,
\* and its first call is to the first text model; with the API disabled no
\* text model is called.
C14_TextTierByDaysLeftAndApi ==
    DateParses =>
        /\ DaysLeft < 0 => NoTextCall
        /\ ~use_api => NoTextCall
        /\ (Returns /\ use_api /\ DaysLeft >= 0 /\ NoVisionSuccess) =>
               \E i \in 1..Len(calls) :
                   /\ calls[i].tier = "text"
                   /\ calls[i].model = text_models[1]
                   /\ \A j \in 1..(i - 1) : calls[j].tier = "vision"

\* C14 witness: an item that expires today, image supplied; the three vision
\* models failed, the first text model was called, and predict returned
C14_Witness ==
    /\ Returns
    /\ use_api
    /\ DateParses
    /\ DaysLeft = 0
    /\ Len(calls) = 4
    /\ calls[3].tier = "vision"
    /\ calls[4].tier = "text"

\* C15: within one request no model is called twice (so a model that failed
\* is not called again), the calls of a tier are consecutive (no tier is
\* entered a second time), and there are at most
\* len(vision_models) + len(text_models) external calls.
C15_EachModelAtMostOnce ==
    /\ \A i, j \in 1..Len(calls) : calls[i].model = calls[j].model => i = j
    /\ \A i, j, k \in 1..Len(calls) :
           (i < j /\ j < k /\ calls[i].tier = calls[k].tier) =>
               calls[j].tier = calls[i].tier
    /\ Len(calls) <= Len(vision_models) + Len(text_models)

\* C15 witness: every configured model has been called, each one failed, and
\* predict has returned
C15_Witness ==
    /\ Returns
    /\ Len(calls) = Len(vision_models) + Len(text_models)
    /\ \A i \in 1..Len(calls) : ~calls[i].ok
    /\ {calls[i].model : i \in 1..Len(calls)} =
           {vision_models[i] : i \in 1..Len(vision_models)}
           \cup {text_models[i] : i \in 1..Len(text_models)}

\* the stage of the cascade predict is in: 1 vision tier, 2 text tier,
\* 3 local classifier, 4 returned; 0 outside the cascade
Stage(p) ==
    CASE p = "vision" -> 1
      [] p = "text"   -> 2
      [] p = "local"  -> 3
      [] p = "done"   -> 4
      [] OTHER        -> 0

\* no call to a vision model comes after a call to a text model
VisionBeforeText ==
    \A i, j \in 1..Len(calls) :
        (calls[i].tier = "text" /\ calls[j].tier = "vision") => j < i

\* a step of a running cascade: the stage never decreases, a call is made
\* only by the tier predict is in, and the verdict is set by the local
\* classifier only in the local stage, after which predict has returned
LinearStep ==
    pc \in {"vision", "text", "local"} =>
        /\ Stage(pc') >= Stage(pc)
        /\ calls' # calls =>
               /\ pc \in {"vision", "text"}
               /\ Len(calls') = Len(calls) + 1
               /\ calls'[Len(calls')].tier = pc
               /\ SubSeq(calls', 1, Len(calls)) = calls
        /\ pc = "local" => calls' = calls /\ pc' = "done"
        /\ (result' # result /\ pc # "local") =>
               result'["ai_type"].str # "local_ai"

\* C16: the cascade is linear: every call to a vision model precedes every
\* call to a text model, and no step of a running request goes back to an
\* earlier stage (vision, text, local, returned); the local classifier runs
\* only in the last stage before the return, so once the text tier or the
\* local classifier has started no vision model is called.
C16_LinearCascade == []VisionBeforeText /\ [][LinearStep]_vars

\* C16 witness: the local classifier produced the verdict after the three
\* vision calls and then the three text calls
C16_Witness ==
    /\ Returns
    /\ Len(calls) = 6
    /\ \A i \in 1..3 : calls[i].tier = "vision" /\ calls[i + 3].tier = "text"
    /\ result["ai_type"] = Str("local_ai")

\* s begins with prefix
StartsWith(s, prefix) ==
    Len(s) >= Len(prefix) /\ SubSeq(s, 1, Len(prefix)) = prefix

\* an image is present: image_base64 holds image data (line 53 takes None and
\* the empty string alike as no image)
ImagePresent == Truthy(image_base64)

\* a vision model has been called
VisionCalled == \E i \in 1..Len(calls) : calls[i].tier = "vision"

\* the verdict is tagged as one of the vision tier
TaggedVision ==
    \/ "ai_type" \in DOMAIN result
          /\ IsStr(result["ai_type"])
          /\ StartsWith(result["ai_type"].str, "vision_ai_")
    \/ "analysis_type" \in DOMAIN result
          /\ result["analysis_type"] = Str("vision")

\* C17: the vision tier is entered exactly when an image is present. With no
\* image no vision model is called and no returned verdict is tagged vision;
\* with an image, the API enabled and a date that parses, the request goes to
\* the first vision model first: it never returns without a call and its
\* first call is to vision_models[1].
C17_VisionTierByImage ==
    /\ ~ImagePresent => ~VisionCalled /\ (Returns => ~TaggedVision)
    /\ VisionCalled => ImagePresent /\ use_api
    /\ (ImagePresent /\ use_api /\ DateParses) =>
           /\ calls = <<>> => pc = "vision" /\ idx = 1
           /\ calls # <<>> =>
                  calls[1].tier = "vision" /\ calls[1].model = vision_models[1]

\* C17 witness: with an image and the API enabled predict has returned a
\* verdict of the text tier, and its first call was to the first vision model
C17_Witness ==
    /\ Returns
    /\ ImagePresent
    /\ use_api
    /\ calls # <<>>
    /\ calls[1].model = vision_models[1]
    /\ LastCall.tier = "text"
    /\ LastCall.ok

\* call i got a 200 reply whose content holds no parseable JSON
MalformedReply(i) ==
    "content" \in DOMAIN calls[i].env /\ Unparseable(calls[i].env.content)

\* C18: a call whose 200 reply holds no parseable JSON counts as the success
\* of its tier: it is the last call of the request, predict has returned, and
\* the verdict is a degraded one (safe_to_donate, risk_factors [ai_analyzed])
\* tagged with that call's tier and provider, not a verdict of a later model
\* or of the local classifier.
C18_MalformedReplyIsSuccess ==
    \A i \in 1..Len(calls) :
        MalformedReply(i) =>
            /\ calls[i].ok
            /\ i = Len(calls)
            /\ Returns
            /\ result["status"] = Str("safe_to_donate")
            /\ result["risk_factors"] = List(<<"ai_analyzed">>)
            /\ result["ai_type"] = Str(calls[i].tier \o "_ai_" \o LastProvider)
            /\ result["image_analyzed"] = Bool(calls[i].tier = "vision")

\* C18 witness: the first vision model answered 200 with prose and no JSON,
\* and predict returned at once
C18_Witness ==
    /\ Returns
    /\ Len(calls) = 1
    /\ calls[1].tier = "vision"
    /\ calls[1].env = [content |-> Str("I cannot analyze this item.")]

\* the replies of ReplyContents that hold no parseable JSON: prose without
\* braces, two JSON objects with prose between them (the greedy match takes
\* both and the prose as one text), and braces around text that is no JSON
MalformedReplies ==
    {Str("I cannot analyze this item."),
     Str("{\"status\": \"reject\"} and also {\"status\": \"safe_to_donate\"}"),
     Str("{not json}")}

\* C19: _parse_ai_response never raises: a call that got a reply content,
\* whatever it is, succeeded; and for a reply with no {...} substring, or
\* whose {...} substring is not valid JSON (two separate objects included),
\* the verdict is the degraded one: safe_to_donate, confidence 0.7,
\* risk_factors [ai_analyzed], with model and analysis_type those of the call.
C19_DegradedOnMalformedReply ==
    /\ \A i \in 1..Len(calls) : "content" \in DOMAIN calls[i].env => calls[i].ok
    /\ (Returns /\ FromReply /\ LastCall.env.content \in MalformedReplies) =>
           /\ DOMAIN result = VerdictKeys \cup {"analysis_type"}
           /\ result["status"] = Str("safe_to_donate")
           /\ result["confidence"] = Num(70)
           /\ result["risk_factors"] = List(<<"ai_analyzed">>)
           /\ result["recommendations"] = List(<<"Check manually if unsure">>)
           /\ result["reason"] =
                  Str("AI analysis completed (" \o LastCall.tier \o " mode)")
           /\ result["model"] = Str(LastProvider)
           /\ result["analysis_type"] = Str(LastCall.tier)

\* C19 witness: the second text model replied with two JSON objects and
\* predict returned
C19_Witness ==
    /\ Returns
    /\ Len(calls) = 2
    /\ LastCall.tier = "text"
    /\ FromReply
    /\ LastCall.env.content =
           Str("{\"status\": \"reject\"} and also {\"status\": \"safe_to_donate\"}")
    /\ MalformedReplies \subseteq ReplyContents

\* the JSON object of the last call's reply; defined when the reply is a text
\* that is not Unparseable
ParsedReply == JsonLoads(SearchBraces(LastCall.env.content.str).group).value

\* the status the normalized verdict is to have for a reply whose object has
\* the status text s: one of the three values when s is one of them in any
\* letter case, safe_to_donate otherwise
CanonicalStatus(s) ==
    IF Str(Lower(s)) \in StatusValues THEN Str(Lower(s)) ELSE Str("safe_to_donate")

\* C20: for a reply that parses to a JSON object, the verdict's status is the
\* reply's status in lower case when that is SAFE_TO_DONATE, CONSUME_SOON or
\* REJECT in any letter case, and safe_to_donate when the reply's status is
\* any other string or the reply has no status field.
C20_StatusNormalized ==
    (Returns /\ FromReply /\ IsStr(LastCall.env.content)
     /\ ~Unparseable(LastCall.env.content)) =>
        IF "status" \in DOMAIN ParsedReply
        THEN IsStr(ParsedReply["status"]) =>
                 /\ "status" \in DOMAIN result
                 /\ result["status"] = CanonicalStatus(ParsedReply["status"].str)
        ELSE /\ "status" \in DOMAIN result
             /\ result["status"] = Str("safe_to_donate")

\* predict returned a verdict normalized from a reply that parsed: its text
\* holds a JSON object whose status, if any, is a string
ReplyParsed ==
    /\ Returns
    /\ FromReply
    /\ IsStr(LastCall.env.content)
    /\ ~Unparseable(LastCall.env.content)
    /\ "status" \in DOMAIN ParsedReply => IsStr(ParsedReply["status"])

\* the fields the normalizer backfills, with their defaults for the last call
BackfillDefaults ==
    [confidence      |-> Num(80),
     reason          |-> Str("Analyzed by " \o LastProvider),
     risk_factors    |-> List(<<>>),
     recommendations |-> List(<<>>)]

\* the fields that are normalized or stamped whatever the reply holds (C10,
\* C20)
StampedKeys == {"status", "model", "analysis_type", "ai_type", "image_analyzed"}

Invoked == pc = "invoked"
Outcome == calls[1].outcome

\* an HTTP status of the success class
Is2xx(status_code) == status_code >= 200 /\ status_code <= 299

\* C22: an invocation whose response has a 2xx status and a reply text
\* succeeds, and one whose response has any other status fails with an error
\* whose message holds the status and the first 100 characters of the
\* response body, in the vision invoker and in the text invoker alike.
C22_InvokerByHttpStatus ==
    (Invoked /\ ~Outcome.timeout) =>
        IF Is2xx(Outcome.status_code)
        THEN (Outcome.body.json /\ Outcome.body.choices) =>
                 calls[1].ok /\ error = "" /\ ~IsNone(result)
        ELSE /\ ~calls[1].ok
             /\ Contains(error, IntStr(Outcome.status_code))
             /\ Contains(error, Truncate(Outcome.text, 100))

\* predict returned the verdict of the local classifier for a date that parses
LocalDecided ==
    /\ Returns
    /\ DateParses
    /\ "ai_type" \in DOMAIN result
    /\ result["ai_type"] = Str("local_ai")

\* the text the local classifier matches keywords in: "name description" in
\* lower case
RequestText == Lower(food_name \o " " \o description)

\* the spoilage keywords that RequestText contains, in table order
MatchedKeywords == SelectSeq(spoilage_words, LAMBDA w : Contains(RequestText, w))

\* C23: a local verdict for days_left >= 0 and a text that contains a
\* spoilage keyword is reject with confidence 0.95 and risk_factors the
\* matched keywords, each once, in table order, whatever days_left >= 0 is
\* and whether or not the text also names a perishable or shelf-stable food.
C23_SpoilageRule ==
    (LocalDecided /\ DaysLeft >= 0 /\ MatchedKeywords # <<>>) =>
        /\ result["status"] = Str("reject")
        /\ result["confidence"] = Num(95)
        /\ result["risk_factors"] = List(MatchedKeywords)

\* C23 witness: "Canned Fish", "Moldy spots, BAD smell", 400 days left: the
\* text has two spoilage keywords, a perishable and a shelf-stable keyword
C23_Witness ==
    /\ LocalDecided
    /\ DaysLeft = DemoShelfLife
    /\ food_name = "Canned Fish"
    /\ MatchedKeywords = <<"mold", "bad">>

\* the keywords of the two food categories
PerishableWords == {"milk", "meat", "fish"}
ShelfStableWords == {"canned", "packaged"}

\* RequestText contains a word of the set
TextHas(words) == \E w \in words : Contains(RequestText, w)

\* the rule of the decision table that applies to the request, the rules
\* taken in their order: expired, spoilage, perishable, shelf-stable, general
ExpectedRule ==
    IF DaysLeft < 0 THEN "expired"
    ELSE IF MatchedKeywords # <<>> THEN "spoilage"
    ELSE IF TextHas(PerishableWords) THEN "perishable"
    ELSE IF TextHas(ShelfStableWords) THEN "shelf_stable"
    ELSE "general"

\* the beginnings of the reasons each rule writes
RuleReasons ==
    [expired      |-> {"EXPIRED: "},
     spoilage     |-> {"UNSAFE: "},
     perishable   |-> {"SAFE: Perishable", "CONSUME SOON: Perishable",
                       "REJECT: Perishable"},
     shelf_stable |-> {"EXCELLENT: Long shelf life"},
     general      |-> {"GOOD: ", "CONSUME SOON: Should be eaten",
                       "REJECT: Too close to expiry"}]

\* the rules whose reason the verdict carries
RulesOfVerdict ==
    {r \in DOMAIN RuleReasons :
        \E prefix \in RuleReasons[r] : StartsWith(result["reason"].str, prefix)}

\* C24: every local verdict is the verdict of exactly one rule, the first
\* rule in table order that applies; so a text with both a perishable and a
\* shelf-stable keyword (and no spoilage keyword, not expired) is decided by
\* the perishable rule and carries the perishable risk factor.
C24_OneRuleInOrder ==
    LocalDecided =>
        /\ RulesOfVerdict = {ExpectedRule}
        /\ (DaysLeft >= 0 /\ MatchedKeywords = <<>>
            /\ TextHas(PerishableWords) /\ TextHas(ShelfStableWords)) =>
               /\ "perishable" \in RiskTags
               /\ result["recommendations"] # List(<<"Good for donation">>)

\* C24 witness: "Canned Fish" with one day left is rejected as perishable
C24_Witness ==
    /\ LocalDecided
    /\ food_name = "Canned Fish"
    /\ description = ""
    /\ DaysLeft = 1
    /\ RulesOfVerdict = {"perishable"}
    /\ result["status"] = Str("reject")

\* the verdict has this status and this confidence (in hundredths)
Decides(status, confidence) ==
    result["status"] = Str(status) /\ result["confidence"] = Num(confidence)

\* the request is not expired and its text has no spoilage keyword
Unspoiled == DaysLeft >= 0 /\ MatchedKeywords = <<>>

\* C25: a local verdict for an unspoiled, non-expired text that contains
\* milk, meat or fish is safe_to_donate 0.85 for days_left >= 7,
\* consume_soon 0.90 for 3 <= days_left <= 6 and reject 0.88 for
\* 0 <= days_left <= 2.
C25_PerishableTiers ==
    (LocalDecided /\ Unspoiled /\ TextHas(PerishableWords)) =>
        /\ DaysLeft >= 7 => Decides("safe_to_donate", 85)
        /\ (DaysLeft >= 3 /\ DaysLeft <= 6) => Decides("consume_soon", 90)
        /\ DaysLeft <= 2 => Decides("reject", 88)

\* C25 witness: "Fresh Milk", "Unopened carton", five days left, no API key:
\* consume_soon with confidence 0.90
C25_Witness ==
    /\ LocalDecided
    /\ ~use_api
    /\ food_name = "Fresh Milk"
    /\ description = "Unopened carton"
    /\ DaysLeft = 5
    /\ Decides("consume_soon", 90)

\* C26: a local verdict for an unspoiled, non-expired text with no
\* perishable keyword that contains canned or packaged is safe_to_donate
\* 0.95 with empty risk_factors for every days_left >= 0, today included.
C26_ShelfStable ==
    (LocalDecided /\ Unspoiled /\ ~TextHas(PerishableWords)
     /\ TextHas(ShelfStableWords)) =>
        /\ Decides("safe_to_donate", 95)
        /\ result["risk_factors"] = List(<<>>)

\* C26 witness: "Canned Soup" expiring today is safe_to_donate
C26_Witness ==
    /\ LocalDecided
    /\ food_name = "Canned Soup"
    /\ description = ""
    /\ DaysLeft = 0
    /\ Decides("safe_to_donate", 95)

\* C27: a local verdict for an unspoiled, non-expired text with no
\* perishable and no shelf-stable keyword is safe_to_donate 0.85 for
\* days_left >= 7, consume_soon 0.80 for 3 <= days_left <= 6 and reject 0.90
\* for 0 <= days_left <= 2.
C27_GeneralTiers ==
    (LocalDecided /\ Unspoiled /\ ~TextHas(PerishableWords)
     /\ ~TextHas(ShelfStableWords)) =>
        /\ DaysLeft >= 7 => Decides("safe_to_donate", 85)
        /\ (DaysLeft >= 3 /\ DaysLeft <= 6) => Decides("consume_soon", 80)
        /\ DaysLeft <= 2 => Decides("reject", 90)

\* C27 witness: "Bananas" with exactly seven days left are safe_to_donate
C27_Witness ==
    /\ LocalDecided
    /\ food_name = "Bananas"
    /\ DaysLeft = 7
    /\ Decides("safe_to_donate", 85)

\* s ends with suffix
EndsWith(s, suffix) ==
    Len(s) >= Len(suffix)
    /\ SubSeq(s, Len(s) - Len(suffix) + 1, Len(s)) = suffix

\* the verdict's reason carries the image annotation
HasImageNote == Contains(result["reason"].str, "image provided but analysis failed")

\* C28: the reason of a local verdict carries the annotation "image provided
\* but analysis failed" exactly when an image was supplied with the request
\* (the local tier is reached only when no image was analysed), in every
\* branch of the decision table, and not when no image was supplied.
C28_ImageNoteIffImage == LocalDecided => (HasImageNote <=> ImagePresent)

\* the same with "supplied" read as lines 83-85 read it: image_base64 is not
\* None, an empty payload included
ImageNoteIffNotNone ==
    LocalDecided =>
        /\ HasImageNote <=> ~IsNone(image_base64)
        /\ HasImageNote =>
               EndsWith(result["reason"].str, " (image provided but analysis failed)")

\* predict has been called and has not come back to its caller
Running == pc \in {"vision", "text", "local", "except"}

\* the local classifier's step ends the request with a verdict that has a status
LocalAlwaysDecides ==
    pc = "local" =>
        /\ pc' = "done"
        /\ ~IsNone(result')
        /\ "status" \in DOMAIN result'

\* C29: every execution of predict eventually returns a verdict, given that
\* each external call returns or fails: a running request reaches DONE, after
\* at most one call per configured model, and the step of the local
\* classifier, once reached, always ends the request with a verdict.
C29_PredictTerminates ==
    /\ Running ~> Returns
    /\ [](Len(calls) <= Len(vision_models) + Len(text_models))
    /\ [][LocalAlwaysDecides]_vars

\* C29 witness: predict has returned from the local classifier after every
\* model of both tiers was called and failed
C29_Witness ==
    /\ Returns
    /\ Len(calls) = Len(vision_models) + Len(text_models)
    /\ \A i \in 1..Len(calls) : ~calls[i].ok
    /\ result["ai_type"] = Str("local_ai")

\* predict was called for food past a parseable expiry date, without an image
ExpiredNoImage == pc # "idle" /\ DateParses /\ DaysLeft < 0 /\ ~ImagePresent

\* C30: for a request with a parseable expiry date in the past and no image,
\* predict makes no external call at all, whether the API is enabled or not,
\* and returns the local classifier's verdict: reject with confidence 0.99.
C30_ExpiredNoImageLocalReject ==
    ExpiredNoImage =>
        /\ calls = <<>>
        /\ pc \in {"local", "done"}
        /\ Returns =>
               /\ Decides("reject", 99)
               /\ result["ai_type"] = Str("local_ai")
               /\ result["model"] = Str("local_ai")
               /\ result["risk_factors"] = List(<<"expired">>)

\* C30 witness: with the API enabled predict has returned the local reject
\* for expired food without an image
C30_Witness ==
    /\ ExpiredNoImage
    /\ Returns
    /\ use_api
    /\ Decides("reject", 99)

\* predict was called for food past a parseable expiry date
Expired == pc # "idle" /\ DateParses /\ DaysLeft < 0

\* C31: for a request whose expiry date is in the past, with or without an
\* image and whatever the external models reply, predict never returns the
\* status safe_to_donate.
C31_ExpiredNeverSafe ==
    (Expired /\ Returns /\ "status" \in DOMAIN result) =>
        result["status"] # Str("safe_to_donate")

\* the part of C31 the code keeps: without a vision call no verdict for
\* expired food is safe_to_donate
ExpiredNeverSafeWithoutVision ==
    (Expired /\ Returns /\ ~VisionCalled) =>
        /\ "status" \in DOMAIN result
        /\ result["status"] = Str("reject")

\* the verdict names the simple fallback as its model
FromSimpleFallback == result["model"] = Str("fallback")

\* C32: predict returns a verdict with model "fallback" exactly when
\* expiry_date fails to parse; then no external model was called and the
\* verdict is the last-resort one. When expiry_date parses the handler of
\* predict is never entered, so the day buckets of _simple_fallback are never
\* the source of the returned verdict.
C32_FallbackIffUnparseable ==
    /\ pc = "except" => ~DateParses /\ calls = <<>>
    /\ Returns =>
          /\ FromSimpleFallback <=> ~DateParses
          /\ ~DateParses => calls = <<>> /\ result = LastResortVerdict
          /\ DateParses => result # SimpleFallbackBuckets(DaysLeft)

\* C32 witness: with the API enabled and an image predict has returned the
\* simple fallback's verdict for a date that does not parse
C32_Witness ==
    /\ Returns
    /\ FromSimpleFallback
    /\ ~DateParses
    /\ use_api
    /\ ImagePresent

\* the step is a call of update_status on listing id
UpdateStatusCalled(id) == returned' # returned /\ returned'.id = id

\* the call before this one was update_status on listing id, the same day
CalledBefore(id) ==
    /\ ~IsNone(returned)
    /\ returned.id = id
    /\ returned.day = utc_today

\* C35: update_status changes status only from available to expired and only
\* when expiry_date is before today; it returns True exactly when it changed
\* the status, never alters a claimed, delivered or expired listing, and a
\* second call returns False and changes nothing.
UpdateStatusStep ==
    \A id \in ListingIds :
        UpdateStatusCalled(id) =>
            LET before == food_listings[id]
                after  == food_listings'[id]
            IN  /\ after.expiry_date = before.expiry_date
                /\ after.status # before.status =>
                       /\ before.status = "available"
                       /\ after.status = "expired"
                       /\ ~IsNone(before.expiry_date)
                       /\ before.expiry_date.num < utc_today
                /\ returned'.ret <=> after.status # before.status
                /\ before.status \in {"claimed", "delivered", "expired"} =>
                       after = before
                /\ (before.status = "available" /\ ~IsNone(before.expiry_date)
                       /\ before.expiry_date.num < utc_today) =>
                       after.status = "expired"
                /\ CalledBefore(id) => ~returned'.ret /\ after = before
                /\ \A other \in ListingIds \ {id} :
                       food_listings'[other] = food_listings[other]

C35_UpdateStatus == [][UpdateStatusStep]_vars

\* C35 witness: update_status has expired listing 1 and returned True, and
\* listing 2 is a claimed listing past its date
C35_Witness ==
    /\ ~IsNone(returned)
    /\ returned.id = 1
    /\ returned.ret
    /\ food_listings[1].status = "expired"
    /\ food_listings[2].status = "claimed"
    /\ ~IsNone(food_listings[2].expiry_date)
    /\ food_listings[2].expiry_date.num < utc_today

\* request r got the success response for listing id
Claimed(r, id) ==
    /\ sessions[r].pc = "done"
    /\ sessions[r].code = 200
    /\ sessions[r].donation_id = id

\* C33: a donation is claimed successfully at most once: whatever the
\* interleaving of concurrent claim requests on the same listing, at most
\* one of them gets the success response.
C33_ClaimedAtMostOnce ==
    \A id \in ListingIds :
        Cardinality({r \in Requests : Claimed(r, id)}) <= 1

\* what the code keeps of C33: the status of a listing only ever changes from
\* available to claimed, so it changes at most once
StatusChangesOnce ==
    \A id \in ListingIds :
        food_listings'[id].status # food_listings[id].status =>
            /\ food_listings[id].status = "available"
            /\ food_listings'[id].status = "claimed"

ClaimChangesStatusOnce == [][StatusChangesOnce]_vars

\* the step is request r reading the row of listing id (lines 210-215)
Reads(r, id) ==
    /\ sessions[r].pc = "idle"
    /\ sessions'[r].pc # "idle"
    /\ sessions'[r].donation_id = id

\* C34: claim_donation on a listing whose status, as the request reads it, is
\* not available answers 400 "Donation is already <status>" and leaves the
\* status unchanged; on an unknown id it answers 404 and changes no listing;
\* and only a listing in status available ever moves to claimed.
ClaimErrorStep ==
    /\ \A r \in Requests, id \in DonationIds :
          Reads(r, id) =>
              /\ food_listings' = food_listings
              /\ id \notin DOMAIN food_listings =>
                     /\ sessions'[r].pc = "done"
                     /\ sessions'[r].code = 404
              /\ (id \in DOMAIN food_listings
                     /\ food_listings[id].status # "available") =>
                     /\ sessions'[r].pc = "done"
                     /\ sessions'[r].code = 400
                     /\ sessions'[r].body =
                            "Donation is already " \o food_listings[id].status
    /\ \A id \in ListingIds :
          (food_listings'[id].status = "claimed"
              /\ food_listings[id].status # "claimed") =>
              food_listings[id].status = "available"

C34_ClaimErrors == [][ClaimErrorStep]_vars

\* C34 witness: one request was answered 400 for a delivered listing that is
\* still delivered, another 404 for an unknown id
C34_Witness ==
    /\ \E r \in Requests :
          /\ sessions[r].code = 400
          /\ sessions[r].donation_id \in ListingIds
          /\ sessions[r].body = "Donation is already delivered"
          /\ food_listings[sessions[r].donation_id].status = "delivered"
    /\ \E r \in Requests :
          /\ sessions[r].code = 404
          /\ sessions[r].donation_id \notin ListingIds

\* the step is GET /take/<id> for a listing that exists
Takes(id) ==
    /\ id \in DOMAIN food_listing
    /\ response' # response
    /\ response'.route = "take"
    /\ response'.listing_id = id

\* C36: taking a listing sets that listing's status to assigned: after the
\* operation the listing still exists with status assigned, it is not among
\* the available listings of the dashboard, and no other listing is changed.
TakeStep ==
    \A id \in ListingIds :
        Takes(id) =>
            /\ id \in DOMAIN food_listing'
            /\ food_listing'[id] = "assigned"
            /\ \A other \in DOMAIN food_listing \ {id} :
                   /\ other \in DOMAIN food_listing'
                   /\ food_listing'[other] = food_listing[other]

C36_TakeAssigns == [][TakeStep]_vars

\* what the code keeps of C36: the listing taken is no longer available, and
\* every other row is as it was
TakeRemovesStep ==
    \A id \in ListingIds :
        Takes(id) =>
            /\ id \notin DOMAIN food_listing'
            /\ DOMAIN food_listing' = DOMAIN food_listing \ {id}
            /\ \A other \in DOMAIN food_listing' :
                   food_listing'[other] = food_listing[other]

TakeRemovesOnly == [][TakeRemovesStep]_vars

\* _simple_fallback has returned, for a date that parses
FallbackDecided == pc = "fallback" /\ DateParses

\* food names without a spoilage, perishable or shelf-stable keyword
PlainNames ==
    {fn \in FoodNames :
        LET text == Lower(fn \o " ")
        IN  /\ \A i \in 1..Len(spoilage_words) : ~Contains(text, spoilage_words[i])
            /\ \A w \in PerishableWords \cup ShelfStableWords : ~Contains(text, w)}

\* C37: _simple_fallback with a parseable date decides by days_left alone,
\* whatever the food name: reject 0.99 below 0, safe_to_donate 0.85 from 7,
\* consume_soon 0.80 for 3..6, reject 0.90 for 0..2, always with model
\* "fallback"; and its status and confidence are those of _smart_local_ai for
\* the same days_left on a text without keywords.
C37_SimpleFallbackBuckets ==
    FallbackDecided =>
        /\ DaysLeft < 0 => Decides("reject", 99)
        /\ DaysLeft >= 7 => Decides("safe_to_donate", 85)
        /\ (DaysLeft >= 3 /\ DaysLeft <= 6) => Decides("consume_soon", 80)
        /\ (DaysLeft >= 0 /\ DaysLeft <= 2) => Decides("reject", 90)
        /\ FromSimpleFallback
        /\ \A fn \in PlainNames :
              LET local == _smart_local_ai(fn, DaysLeft, "", FALSE)
              IN  /\ local["status"] = result["status"]
                  /\ local["confidence"] = result["confidence"]

\* C37 witness: _simple_fallback has answered consume_soon for "Sour Cream",
\* a name with a spoilage keyword, six days before its date
C37_Witness ==
    /\ FallbackDecided
    /\ PlainNames # {}
    /\ food_name = "Sour Cream"
    /\ DaysLeft = 6
    /\ Decides("consume_soon", 80)

====
